---- MODULE Spec2Model ----
(***************************************************************************)
(* A model of the miqro lexer: the scanner (scanner.rs) and the escape     *)
(* decoder (unescape.rs).                                                  *)
(*                                                                         *)
(* A char is modelled by the one-character string that spells it, the      *)
(* source text (Chars) by a sequence of chars, and a Rust String (token    *)
(* text, messages) by a TLA+ string.  U+0000 has no TLA+ spelling and is   *)
(* named NUL.                                                              *)
(***************************************************************************)
EXTENDS Integers, Sequences, FiniteSets, TLC

VARIABLES text, src, line, column, current, token, panicked, first, depth,
          calls, raw, result

vars == <<text, src, line, column, current, token, panicked, first, depth,
          calls, raw, result>>

\* Longest source text explored.
MaxLen == 5

\* U+0000: the value of Lexer.current after new(), the value lookahead()
\* returns at end of input, and a scalar value a source text may contain.
NUL == "<NUL>"

(***************************************************************************)
(* Source texts.  Each family is every text of at most MaxLen chars over   *)
(* a small alphabet that spells one group of lexemes.                      *)
(***************************************************************************)
NumberChars == {"0", "7", ".", "b", " "}
CommentChars == {"/", "*", "x", "\n"}
QuoteChars == {"'", "\"", "\\", "n", "\n"}
OperatorChars == {">", "=", "-", ":", "&"}
MoreOperatorChars == {"<", "=", "|", "/", "+"}
OtherChars == {NUL, "x", " ", "(", "$"}
NameChars == {"i", "f", "x", "0", " "}
WordChars == {"l", "e", "t", "r", "u"}

Alphabets == {NumberChars, CommentChars, QuoteChars, OperatorChars,
              MoreOperatorChars, OtherChars, NameChars, WordChars}

SeqsUpTo(A, n) == UNION {[1..k -> A] : k \in 0..n}

(***************************************************************************)
(* Raw literal contents handed to the decoder: every content of at most    *)
(* MaxLen chars over an alphabet of escapes, and every \u{H} with H of at  *)
(* most MaxHex sample hex digits.                                          *)
(***************************************************************************)
MaxHex == 7

UnicodeChars == {"\\", "u", "{", "}", "0", "g"}
HexChars == {"\\", "x", "4", "1", "F", "g"}
EscapeChars == {"\\", "n", "'", "q", "a"}
SampleHexDigits == {"0", "1", "8", "D", "F"}

UnicodeEscapes ==
    {<<"\\", "u", "{">> \o h \o <<"}">> : h \in SeqsUpTo(SampleHexDigits, MaxHex)}

Contents ==
    UNION {SeqsUpTo(A, MaxLen) : A \in {UnicodeChars, HexChars, EscapeChars}}
        \cup UnicodeEscapes

Sources == UNION {SeqsUpTo(A, MaxLen) : A \in Alphabets}

(***************************************************************************)
(* Character classes.                                                      *)
(***************************************************************************)
is_whitespace(c) == c \in {" ", "\n", "\t", "\r"}

Letters == {"a", "b", "c", "d", "e", "f", "g", "h", "i", "j", "k", "l", "m",
            "n", "o", "p", "q", "r", "s", "t", "u", "v", "w", "x", "y", "z",
            "A", "B", "C", "D", "E", "F"}

Digits == {"0", "1", "2", "3", "4", "5", "6", "7", "8", "9"}

is_xid_start(c) == c \in Letters

is_xid_continue(c) == c \in Letters \cup Digits \cup {"_"}

is_ascii_hexdigit(c) ==
    c \in Digits \cup {"a", "b", "c", "d", "e", "f", "A", "B", "C", "D", "E", "F"}

(***************************************************************************)
(* The cursor.  A lexer value lx is a record of the Lexer fields the       *)
(* scanner changes, and the flag panicked: a failed unwrap has aborted     *)
(* the scan.                                                               *)
(***************************************************************************)
new(code) ==
    [src |-> code, line |-> 1, column |-> 0, current |-> NUL, panicked |-> FALSE]

eof(lx) == lx.src = <<>>

lookahead(lx) == IF lx.src = <<>> THEN NUL ELSE Head(lx.src)

curr(lx) == lx.current

\* next as it would be if a newline did not reset the column.
next_no_reset(lx) ==
    IF lx.panicked THEN lx
    ELSE IF lx.src = <<>> THEN [lx EXCEPT !.panicked = TRUE]
    ELSE LET c == Head(lx.src) IN
         [src |-> Tail(lx.src),
          current |-> c,
          line |-> IF c = "\n" THEN lx.line + 1 ELSE lx.line,
          column |-> lx.column + 1,
          panicked |-> FALSE]

\* Iterator::next: c.unwrap() fails when no scalar value remains.
next(lx) ==
    IF lx.panicked THEN lx
    ELSE IF lx.src = <<>> THEN [lx EXCEPT !.panicked = TRUE]
    ELSE LET c == Head(lx.src) IN
         [src |-> Tail(lx.src),
          current |-> c,
          line |-> IF c = "\n" THEN lx.line + 1 ELSE lx.line,
          column |-> IF c = "\n" THEN 0 ELSE lx.column + 1,
          panicked |-> FALSE]

make_token(lx, ty, txt) ==
    [ty |-> ty, text |-> txt, line |-> lx.line, column |-> lx.column]

(***************************************************************************)
(* The escape decoder (unescape.rs).  A result is [ok, val]: val is the    *)
(* decoded String when ok, and the name of the UnescapeError otherwise.    *)
(***************************************************************************)
Ok(res) == [ok |-> TRUE, val |-> res]

Err(e) == [ok |-> FALSE, val |-> e]

\* impl Display for UnescapeError
to_string(e) ==
    CASE e = "OnlyOneSlashError" -> "Only one slash found, expected an escape sequence"
      [] e = "IllegalEscape" -> "Illegal escape sequence"
      [] e = "EmptyUnicode" -> "Empty unicode escape sequence"
      [] e = "UnclosedUnicode" -> "Unclosed unicode escape sequence"
      [] e = "IllegalUnicode" -> "Illegal unicode escape sequence"
      [] e = "TooLongUnicode" -> "Too long unicode escape sequence"
      [] e = "ValueOutOfUnicode" -> "Value out of unicode range"
      [] e = "IllegalSurrogate" -> "Illegal surrogate pairs in unicode escape sequence"
      [] e = "InvalidCharInUnicode" -> "Invalid character in unicode escape sequence"
      [] e = "TooShortEscape" -> "Too short escape sequence"
      [] e = "InvalidCharInHex" -> "Invalid character in hexadecimal escape sequence"
      [] e = "ValueOutOfHex" -> "Value out of hexadecimal range"

\* to_digit as it would be with radix 10.
to_digit_decimal(c) ==
    CASE c = "0" -> 0 [] c = "1" -> 1 [] c = "2" -> 2 [] c = "3" -> 3
      [] c = "4" -> 4 [] c = "5" -> 5 [] c = "6" -> 6 [] c = "7" -> 7
      [] c = "8" -> 8 [] c = "9" -> 9
      [] OTHER -> -1

\* char::to_digit(16): the digit's value, or -1 for None.
to_digit(c) ==
    CASE c = "0" -> 0 [] c = "1" -> 1 [] c = "2" -> 2 [] c = "3" -> 3
      [] c = "4" -> 4 [] c = "5" -> 5 [] c = "6" -> 6 [] c = "7" -> 7
      [] c = "8" -> 8 [] c = "9" -> 9
      [] c \in {"a", "A"} -> 10 [] c \in {"b", "B"} -> 11
      [] c \in {"c", "C"} -> 12 [] c \in {"d", "D"} -> 13
      [] c \in {"e", "E"} -> 14 [] c \in {"f", "F"} -> 15
      [] OTHER -> -1

\* The char of a scalar value: its spelling where the model has one, and
\* the name U+<decimal value> otherwise.
char_of(v) ==
    CASE v = 0 -> NUL
      [] v = 8 -> "\\b"
      [] v = 9 -> "\t"
      [] v = 10 -> "\n"
      [] v = 13 -> "\r"
      [] v = 32 -> " "
      [] v = 39 -> "'"
      [] v = 48 -> "0"
      [] v = 65 -> "A"
      [] v = 92 -> "\\"
      [] v = 119 -> "w"
      [] v = 127 -> "<DEL>"
      [] OTHER -> "U+" \o ToString(v)

\* from_u32 as it would be if surrogates were not told apart.
from_u32_any(v) == IF v > 1114111 THEN -1 ELSE v

\* char::from_u32: None (-1 here) for a surrogate or a value past 0x10FFFF.
from_u32(v) == IF (v >= 55296 /\ v <= 57343) \/ v > 1114111 THEN -1 ELSE v

\* any_close as it would be if it looked for the opening brace.
any_close_open(que) == \E i \in 1..Len(que) : que[i] = "{"

\* que.iter().any(|&c| c == '}')
any_close(que) == \E i \in 1..Len(que) : que[i] = "}"

\* The `while let Some(x) = que.pop_front()` loop of a \u escape
\* (lines 75-100).  The result is [ok, val, que]: the decoder's error, or
\* the String to append and the queue left.
RECURSIVE unicode_digits(_, _, _)
unicode_digits(que, digits, value) ==
    IF que = <<>> THEN [ok |-> TRUE, val |-> "", que |-> que]
    ELSE LET x == Head(que) IN
         IF digits > 6 THEN [ok |-> FALSE, val |-> "TooLongUnicode", que |-> que]
         ELSE IF x = "}" THEN
              IF digits = 0 THEN [ok |-> FALSE, val |-> "EmptyUnicode", que |-> que]
              ELSE IF value > 1114111
                   THEN [ok |-> FALSE, val |-> "ValueOutOfUnicode", que |-> que]
              ELSE IF from_u32(value) = -1
                   THEN [ok |-> FALSE, val |-> "IllegalSurrogate", que |-> que]
              ELSE [ok |-> TRUE, val |-> char_of(from_u32(value)), que |-> Tail(que)]
         ELSE IF ~is_ascii_hexdigit(x)
              THEN [ok |-> FALSE, val |-> "InvalidCharInUnicode", que |-> que]
         ELSE unicode_digits(Tail(que), digits + 1, value * 16 + to_digit(x))

\* The `while let Some(c) = que.pop_front()` loop of unescape (lines 49-122).
RECURSIVE unescape_loop(_, _)
unescape_loop(que, res) ==
    IF que = <<>> THEN Ok(res)
    ELSE LET c == Head(que)
             q1 == Tail(que)
         IN
         IF c # "\\" THEN unescape_loop(q1, res \o c)
         ELSE IF q1 = <<>> THEN Err("OnlyOneSlashError")
         ELSE LET esc == Head(q1)
                  q2 == Tail(q1)
              IN
              IF esc = "b" THEN unescape_loop(q2, res \o char_of(8))
              ELSE IF esc = "r" THEN unescape_loop(q2, res \o "\r")
              ELSE IF esc = "n" THEN unescape_loop(q2, res \o "\n")
              ELSE IF esc = "t" THEN unescape_loop(q2, res \o "\t")
              ELSE IF esc = "'" THEN unescape_loop(q2, res \o "'")
              ELSE IF esc = "\\" THEN unescape_loop(q2, res \o "\\")
              ELSE IF esc = "u" THEN
                   IF q2 = <<>> \/ ~any_close(q2) THEN Err("UnclosedUnicode")
                   ELSE IF Head(q2) # "{" THEN Err("IllegalUnicode")
                   ELSE LET u == unicode_digits(Tail(q2), 0, 0) IN
                        IF ~u.ok THEN Err(u.val)
                        ELSE unescape_loop(u.que, res \o u.val)
              ELSE IF esc = "x" THEN
                   IF q2 = <<>> THEN Err("TooShortEscape")
                   ELSE IF to_digit(Head(q2)) = -1 THEN Err("InvalidCharInHex")
                   ELSE IF Tail(q2) = <<>> THEN Err("TooShortEscape")
                   ELSE IF to_digit(Head(Tail(q2))) = -1 THEN Err("InvalidCharInHex")
                   ELSE LET val == to_digit(Head(q2)) * 16 + to_digit(Head(Tail(q2))) IN
                        IF val > 127 THEN Err("ValueOutOfHex")
                        ELSE unescape_loop(Tail(Tail(q2)), res \o char_of(val))
              ELSE Err("IllegalEscape")

\* unescape as it would be with the emptiness test inverted.
unescape_inverted(input) == IF input # <<>> THEN Ok("") ELSE unescape_loop(input, "")

unescape(input) == IF input = <<>> THEN Ok("") ELSE unescape_loop(input, "")

(***************************************************************************)
(* The scanner (scanner.rs).                                               *)
(***************************************************************************)
op_first == {"+", "-", "*", "/", "%", "^", "|", ">", "<", "&", "!",
             "=", ",", ";", ".", ":"}

operators == {"+", "-", "*", "/", "%", "^", "|", ">>", "<<", "&", "!",
              "+=", "-=", "*=", "/=", "%=", "^=", "|=", ">>=", "<<=", "&=",
              ">", "<", "||", "&&", "==", "!=", ">=", "<=",
              ",", ";", ".", "->", "::"}

keywords == {"let", "func", "if", "else", "while", "for", "return"}

\* The closures next_token passes to eat_until, by name.
stops(f, c) ==
    CASE f = "not_whitespace" -> ~is_whitespace(c)
      [] f = "newline" -> c = "\n"

RECURSIVE eat_until(_, _)
eat_until(lx, f) ==
    IF ~stops(f, lookahead(lx)) /\ ~eof(lx) THEN eat_until(next(lx), f) ELSE lx

\* Each scanning loop yields the lexer it leaves and the String it built.
Scanned(lx, content) == [lx |-> lx, content |-> content]

\* while let c @ '0'..='1' / '0'..='7' / '0'..='9' = self.lookahead()
RECURSIVE digit_run(_, _, _)
digit_run(lx, content, allowed) ==
    IF lookahead(lx) \in allowed
    THEN digit_run(next(lx), content \o lookahead(lx), allowed)
    ELSE Scanned(lx, content)

\* while self.lookahead().is_ascii_hexdigit() { self.next(); push(self.curr()) }
RECURSIVE hex_run(_, _)
hex_run(lx, content) ==
    IF is_ascii_hexdigit(lookahead(lx))
    THEN LET l1 == next(lx) IN hex_run(l1, content \o curr(l1))
    ELSE Scanned(lx, content)

\* The default arm of number: while let '0'..='9' = lookahead { push(next()) }
RECURSIVE decimal_run(_, _)
decimal_run(lx, content) ==
    IF lookahead(lx) \in Digits
    THEN LET l1 == next(lx) IN decimal_run(l1, content \o l1.current)
    ELSE Scanned(lx, content)

number(lx, lit) ==
    IF lit = "0b" THEN digit_run(next(lx), lit, {"0", "1"})
    ELSE IF lit = "0o" THEN digit_run(next(lx), lit, {"0", "1", "2", "3", "4", "5", "6", "7"})
    ELSE IF lit = "0x" THEN hex_run(next(lx), lit)
    ELSE decimal_run(lx, lit)

float(lx, lit) == digit_run(next(lx), lit, Digits)

\* The body loop of a quoted literal: the raw content is kept as the
\* sequence of chars the decoder consumes.
RECURSIVE quote_body(_, _, _)
quote_body(lx, content, quote) ==
    IF lookahead(lx) # quote /\ ~eof(lx)
    THEN LET l1 == next(lx) IN quote_body(l1, Append(content, l1.current), quote)
    ELSE Scanned(lx, content)

\* id_run as it would be if it stopped as soon as the text so far is a
\* keyword.
RECURSIVE id_run_split(_, _)
id_run_split(lx, id) ==
    IF is_xid_continue(lookahead(lx)) /\ id \notin keywords
    THEN id_run_split(next(lx), id \o lookahead(lx))
    ELSE Scanned(lx, id)

RECURSIVE id_run(_, _)
id_run(lx, id) ==
    IF is_xid_continue(lookahead(lx))
    THEN id_run(next(lx), id \o lookahead(lx))
    ELSE Scanned(lx, id)

\* op_run as it would be if it grew the operator by at most one character.
op_run_once(lx, op) ==
    IF (op \o lookahead(lx)) \in operators
    THEN Scanned(next(lx), op \o lookahead(lx))
    ELSE Scanned(lx, op)

RECURSIVE op_run(_, _)
op_run(lx, op) ==
    IF (op \o lookahead(lx)) \in operators
    THEN op_run(next(lx), op \o lookahead(lx))
    ELSE Scanned(lx, op)

\* while !(self.eof() || self.curr() == '*' && self.lookahead() == '/')
RECURSIVE comment_body(_)
comment_body(lx) ==
    IF lx.panicked \/ eof(lx) \/ (curr(lx) = "*" /\ lookahead(lx) = "/")
    THEN lx
    ELSE comment_body(next(lx))

\* What a call hands back: the lexer it leaves, the Token (NoToken when
\* the call was aborted), and two observations of the call: the lexer as
\* it was right after `let first = self.next().unwrap()` in the activation
\* that built the token, and the number of nested activations.
NoToken == [ty |-> "None", text |-> "", line |-> 0, column |-> 0]

Returned(lx, tok, fst, d) == [lx |-> lx, token |-> tok, first |-> fst, depth |-> d]

Aborted(lx, fst, d) == Returned(lx, NoToken, fst, d)

\* quoted as it would be if it consumed the closing quote without asking
\* whether the input has ended.
quoted_strict(l1, quote, ty, d) ==
    LET body == quote_body(l1, <<>>, quote)
        l2 == next(body.lx)
        txt == unescape(body.content)
    IN  IF l2.panicked THEN Aborted(l2, l1, d)
        ELSE IF ~txt.ok
        THEN Returned(l2, make_token(l2, "Error", to_string(txt.val)), l1, d)
        ELSE Returned(l2, [ty |-> ty, text |-> txt.val,
                           line |-> l1.line, column |-> l1.column], l1, d)

quoted(l1, quote, ty, d) ==
    LET body == quote_body(l1, <<>>, quote)
        l2 == IF ~eof(body.lx) THEN next(body.lx) ELSE body.lx
        txt == unescape(body.content)
    IN  IF ~txt.ok
        THEN Returned(l2, make_token(l2, "Error", to_string(txt.val)), l1, d)
        ELSE Returned(l2, [ty |-> ty, text |-> txt.val,
                           line |-> l1.line, column |-> l1.column], l1, d)

identifier(l1, d) ==
    LET run == id_run(l1, l1.current)
        id == run.content
    IN  IF id \in keywords THEN Returned(run.lx, make_token(run.lx, "Keyword", id), l1, d)
        ELSE IF id = "true" \/ id = "false"
             THEN Returned(run.lx, make_token(run.lx, "BoolLiteral", id), l1, d)
        ELSE Returned(run.lx, make_token(run.lx, "Id", id), l1, d)

\* numeric as it would be if a lone 0 were taken as the decimal literal "0".
numeric_zero(l1, d) ==
    LET c == l1.current
        n == lookahead(l1)
        int_token(run) == Returned(run.lx, make_token(run.lx, "IntLiteral", run.content), l1, d)
        float_token(run) == Returned(run.lx, make_token(run.lx, "FloatLiteral", run.content), l1, d)
    IN  IF c = "0" /\ n = "b" THEN int_token(number(l1, "0b"))
        ELSE IF c = "0" /\ n = "o" THEN int_token(number(l1, "0o"))
        ELSE IF c = "0" /\ n = "x" THEN int_token(number(l1, "0x"))
        ELSE IF c = "0" /\ n \in Digits THEN int_token(number(l1, "0" \o n))
        ELSE IF n = "." THEN float_token(float(l1, IF c = "0" THEN "0." ELSE c))
        ELSE int_token(number(l1, c))

numeric(l1, d) ==
    LET c == l1.current
        n == lookahead(l1)
        int_token(run) == Returned(run.lx, make_token(run.lx, "IntLiteral", run.content), l1, d)
        float_token(run) == Returned(run.lx, make_token(run.lx, "FloatLiteral", run.content), l1, d)
    IN  IF c = "0" THEN
             IF n = "b" THEN int_token(number(l1, "0b"))
             ELSE IF n = "o" THEN int_token(number(l1, "0o"))
             ELSE IF n = "x" THEN int_token(number(l1, "0x"))
             ELSE IF n = "." THEN float_token(float(l1, "0."))
             ELSE IF n \in Digits THEN int_token(number(l1, "0" \o n))
             ELSE Returned(l1, make_token(l1, "Error", "Invalid number literal suffix"), l1, d)
        ELSE IF n = "." THEN float_token(float(l1, c))
        ELSE int_token(number(l1, c))

operator(l1, d) ==
    LET run == op_run(l1, l1.current)
    IN  Returned(run.lx, make_token(run.lx, "Op", run.content), l1, d)

punctuation(c) ==
    CASE c = "(" -> "LParen" [] c = ")" -> "RParen"
      [] c = "[" -> "LBracket" [] c = "]" -> "RBracket"
      [] c = "{" -> "LBrace" [] c = "}" -> "RBrace"

RECURSIVE next_token(_, _)
next_token(lx, d) ==
    IF eof(lx) THEN Returned(lx, make_token(lx, "Eof", ""), lx, d)
    ELSE LET l1 == next(lx)
             c == l1.current
         IN
         IF c = NUL THEN Returned(l1, make_token(l1, "Eof", ""), l1, d)
         ELSE IF is_whitespace(c)
              THEN next_token(eat_until(l1, "not_whitespace"), d + 1)
         ELSE IF c = "/" /\ lookahead(l1) = "/"
              THEN next_token(eat_until(next(l1), "newline"), d + 1)
         ELSE IF c = "/" /\ lookahead(l1) = "*"
              THEN LET l3 == next(next(l1))
                       l4 == comment_body(l3)
                       l5 == IF ~l4.panicked /\ ~eof(l4) THEN next(next(l4)) ELSE l4
                   IN  IF l5.panicked THEN Aborted(l5, l1, d)
                       ELSE next_token(l5, d + 1)
         ELSE IF c = "'" THEN quoted(l1, "'", "CharLiteral", d)
         ELSE IF c = "\"" THEN quoted(l1, "\"", "StringLiteral", d)
         ELSE IF is_xid_start(c) THEN identifier(l1, d)
         ELSE IF c \in Digits THEN numeric(l1, d)
         ELSE IF c \in op_first THEN operator(l1, d)
         ELSE IF c \in {"(", ")", "[", "]", "{", "}"}
              THEN Returned(l1, make_token(l1, punctuation(c), c), l1, d)
         ELSE Returned(l1, make_token(l1, "Error", "Invalid character"), l1, d)

(***************************************************************************)
(* The state machine: a Lexer built by new() over some source text, and a  *)
(* caller that keeps asking for the next token.                            *)
(***************************************************************************)
Self == [src |-> src, line |-> line, column |-> column, current |-> current,
         panicked |-> panicked]

\* No content has been decoded yet.
Undecoded == [ok |-> FALSE, val |-> ""]

Init ==
    /\ text \in Sources
    /\ src = new(text).src
    /\ line = new(text).line
    /\ column = new(text).column
    /\ current = new(text).current
    /\ panicked = FALSE
    /\ token = NoToken
    /\ first = new(text)
    /\ depth = 0
    /\ calls = 0
    /\ raw = <<>>
    /\ result = Undecoded

\* The caller asks for at most one token more than it needs to see every
\* call the text allows and a call on the exhausted cursor.
MaxCalls == Len(text) + 2

NextToken ==
    /\ ~panicked
    /\ calls < MaxCalls
    /\ calls' = calls + 1
    /\ LET r == next_token(Self, 1) IN
       /\ src' = r.lx.src
       /\ line' = r.lx.line
       /\ column' = r.lx.column
       /\ current' = r.lx.current
       /\ panicked' = r.lx.panicked
       /\ token' = r.token
       /\ first' = r.first
       /\ depth' = r.depth
    /\ UNCHANGED <<text, raw, result>>

Next == NextToken

Spec == Init /\ [][Next]_vars

(***************************************************************************)
(* The decoder on its own: unescape applied to some raw content.           *)
(***************************************************************************)
DecoderInit ==
    /\ raw \in Contents
    /\ result = Undecoded
    /\ text = <<>>
    /\ src = new(text).src
    /\ line = new(text).line
    /\ column = new(text).column
    /\ current = new(text).current
    /\ panicked = FALSE
    /\ token = NoToken
    /\ first = new(text)
    /\ depth = 0
    /\ calls = 0

Unescape ==
    /\ result = Undecoded
    /\ result' = unescape(raw)
    /\ UNCHANGED <<text, src, line, column, current, token, panicked, first, depth,
                   calls, raw>>

DecoderNext == Unescape

DecoderSpec == DecoderInit /\ [][DecoderNext]_vars

(***************************************************************************)
(* Observations of a state used by the properties below.                   *)
(***************************************************************************)
\* The String spelled by a sequence of chars.
RECURSIVE Spell(_)
Spell(s) == IF s = <<>> THEN "" ELSE Head(s) \o Spell(Tail(s))

\* How many scalar values of text have been consumed.
Consumed == Len(text) - Len(src)

\* The index in text of the first character of the last token.
FirstIdx == Len(text) - Len(first.src)

\* The source characters the last token consumed, and the text from its
\* first character on.
Lexeme == SubSeq(text, FirstIdx, Consumed)

FromFirst == SubSeq(text, FirstIdx, Len(text))

\* n applications of next().
RECURSIVE skip(_, _)
skip(lx, n) == IF n = 0 THEN lx ELSE skip(next(lx), n - 1)

\* The indexes in s, a text that starts with the opener of a block
\* comment, of the `*` of a closing `*/`.
Closings(s) == {k \in 3..(Len(s) - 1) : s[k] = "*" /\ s[k + 1] = "/"}

OpensComment(s) == Len(s) >= 2 /\ s[1] = "/" /\ s[2] = "*"

Least(S) == CHOOSE k \in S : \A j \in S : k <= j

Greatest(S) == CHOOSE k \in S : \A j \in S : j <= k

(***************************************************************************)
(* C1.  When the first consumed digit is 0 and the next character is a     *)
(* decimal digit n, the token is an IntLiteral whose text is exactly the   *)
(* characters consumed: "0", n and the maximal run of decimal digits that  *)
(* follows, none duplicated or dropped.                                    *)
(***************************************************************************)
C1_LeadingZeroText ==
    (token # NoToken /\ first.current = "0" /\ lookahead(first) \in Digits)
        => /\ token.ty = "IntLiteral"
           /\ token.text = Spell(Lexeme)
           /\ \A i \in 1..Len(Lexeme) : Lexeme[i] \in Digits
           /\ lookahead(Self) \notin Digits

(***************************************************************************)
(* C2.  When the first consumed digit is followed by `.`, the token is a   *)
(* FloatLiteral whose text is the digit, the `.` and the maximal run of    *)
(* decimal digits that follows: the decimal point is kept as scanned.      *)
(***************************************************************************)
C2_FloatKeepsPoint ==
    (token # NoToken /\ first.current \in Digits /\ lookahead(first) = ".")
        => /\ token.ty = "FloatLiteral"
           /\ token.text = Spell(Lexeme)
           /\ Len(Lexeme) >= 2 /\ Lexeme[2] = "."
           /\ \A i \in 3..Len(Lexeme) : Lexeme[i] \in Digits
           /\ lookahead(Self) \notin Digits

(***************************************************************************)
(* C3.  Skipping a terminated block comment consumes the source up to and  *)
(* including its closing `*/` and nothing more: the token returned is the  *)
(* first token of what follows the `*/`.                                   *)
(***************************************************************************)
C3_CommentStopsAtClose ==
    [][(~panicked /\ OpensComment(src) /\ Closings(src) # {} /\ ~panicked')
         => token' = next_token(skip(Self, Least(Closings(src)) + 1), 1).token]_vars

(***************************************************************************)
(* C4.  next_token is total: no call invokes the cursor's next() when no   *)
(* scalar value remains, so no call is aborted by the failing unwrap.      *)
(***************************************************************************)
C4_NeverAborts == ~panicked

(***************************************************************************)
(* C5.  An unterminated block comment is accepted silently: when the       *)
(* remaining text starts with `/*` and has no later closing `*/`, the call *)
(* consumes to the end of input and returns Eof, with no Error token and   *)
(* no failure.                                                             *)
(***************************************************************************)
C5_UnterminatedCommentIsEof ==
    [][(~panicked /\ OpensComment(src) /\ Closings(src) = {})
         => (~panicked' /\ token'.ty = "Eof" /\ src' = <<>>)]_vars

(***************************************************************************)
(* C6.  Every token's (line, column) is the position of its first          *)
(* consumed character, whatever the number of characters it consumed.      *)
(***************************************************************************)
C6_TokenAtFirstChar ==
    token # NoToken => (token.line = first.line /\ token.column = first.column)

(***************************************************************************)
(* C7.  When the decoder fails on the raw content of a quoted literal, the *)
(* Error token's text is the decoder's message and its (line, column) is   *)
(* the literal's start position, the one a decoded literal would carry.    *)
(***************************************************************************)
\* The raw content of the quoted literal that starts at FirstIdx.
RawContent ==
    LET ends == {k \in (FirstIdx + 1)..Len(text) : text[k] = first.current}
    IN  IF ends = {} THEN SubSeq(text, FirstIdx + 1, Len(text))
        ELSE SubSeq(text, FirstIdx + 1, Least(ends) - 1)

C7_DecodeErrorAtStart ==
    (token # NoToken /\ first.current \in {"'", "\""} /\ ~unescape(RawContent).ok)
        => /\ token.ty = "Error"
           /\ token.text = to_string(unescape(RawContent).val)
           /\ token.line = first.line
           /\ token.column = first.column

(***************************************************************************)
(* C8.  An Eof token is returned only when the cursor is exhausted.        *)
(***************************************************************************)
C8_EofOnlyAtEnd == token.ty = "Eof" => src = <<>>

(***************************************************************************)
(* C9.  Operator scanning is longest-match: when some entry of the         *)
(* operator table is a prefix of the input at the first character of an    *)
(* Op token, the token's text is the longest such entry.                   *)
(***************************************************************************)
\* The lengths of the table entries that are prefixes of s.
EntryLengths(s) == {k \in 1..Len(s) : Spell(SubSeq(s, 1, k)) \in operators}

C9_LongestMatch ==
    (token.ty = "Op" /\ EntryLengths(FromFirst) # {})
        => token.text = Spell(SubSeq(FromFirst, 1, Greatest(EntryLengths(FromFirst))))

C9_Witness == token.ty = "Op" /\ token.text = ">>=" /\ src # <<>>

(***************************************************************************)
(* C10.  The text of every Op token is an entry of the operator table.     *)
(***************************************************************************)
C10_OpTextInTable == token.ty = "Op" => token.text \in operators

(***************************************************************************)
(* C11.  An identifier-shaped lexeme (an identifier-start character and    *)
(* the maximal run of identifier-continue characters after it) yields one  *)
(* token whose text is the whole lexeme; its kind is Keyword iff the       *)
(* lexeme is one of let, func, if, else, while, for, return, BoolLiteral   *)
(* iff it is true or false, and Id otherwise.  A keyword that is a proper  *)
(* prefix of the lexeme is never split off.                                *)
(***************************************************************************)
\* The last call built its token from a first character it consumed (at
\* the end of input `first` is the lexer the call found, nothing consumed).
Produced == token.ty \notin {"None", "Eof"}

\* The length of the identifier-shaped lexeme that starts s.
NameLength(s) ==
    Greatest({k \in 1..Len(s) : \A i \in 2..k : is_xid_continue(s[i])})

C11_NameClassified ==
    (Produced /\ is_xid_start(first.current))
        => LET name == Spell(SubSeq(FromFirst, 1, NameLength(FromFirst))) IN
           /\ token.text = name
           /\ Consumed = FirstIdx + NameLength(FromFirst) - 1
           /\ token.ty = "Keyword"
                <=> name \in {"let", "func", "if", "else", "while", "for", "return"}
           /\ token.ty = "BoolLiteral" <=> name \in {"true", "false"}
           /\ token.ty = "Id"
                <=> name \notin {"let", "func", "if", "else", "while", "for",
                                 "return", "true", "false"}

C11_Witness == token.ty = "Id" /\ token.text = "lett"

(***************************************************************************)
(* C12.  An unterminated quoted literal is accepted: when the input ends   *)
(* before the closing quote, everything after the opening quote is the     *)
(* literal's content and, when it decodes, the token is a StringLiteral    *)
(* (for ") or a CharLiteral (for ') with the decoded text, not an Error,   *)
(* and no closing quote is consumed.                                       *)
(***************************************************************************)
\* The last call started at a quote that no later character closes.
Unterminated ==
    /\ token.ty # "Eof"
    /\ first.current \in {"'", "\""}
    /\ FirstIdx >= 1
    /\ text[FirstIdx] = first.current
    /\ \A k \in (FirstIdx + 1)..Len(text) : text[k] # first.current

AfterQuote == SubSeq(text, FirstIdx + 1, Len(text))

C12_UnterminatedAccepted ==
    (Unterminated /\ unescape(AfterQuote).ok)
        => /\ ~panicked
           /\ token.ty = (IF first.current = "\"" THEN "StringLiteral" ELSE "CharLiteral")
           /\ token.text = unescape(AfterQuote).val
           /\ src = <<>>

C12_Witness ==
    Unterminated /\ token.ty = "StringLiteral" /\ token.text = "n\n" /\ Len(text) = 4

(***************************************************************************)
(* C13.  When the first consumed digit is 0 and what follows is none of    *)
(* b, o, x, `.` or a decimal digit (the end of input included), the token  *)
(* is an Error with text "Invalid number literal suffix" and only the 0    *)
(* has been consumed: the following character starts the next token.       *)
(***************************************************************************)
LoneZero ==
    /\ Produced
    /\ first.current = "0"
    /\ lookahead(first) \notin {"b", "o", "x", "."} \cup Digits

C13_LoneZeroIsError ==
    LoneZero
        => /\ token.ty = "Error"
           /\ token.text = "Invalid number literal suffix"
           /\ src = first.src
           /\ Lexeme = <<"0">>

C13_Witness == LoneZero /\ token.ty = "Error" /\ src = <<" ", "7">>

(***************************************************************************)
(* C14.  A \u escape is validated in this order: when nothing follows \u   *)
(* or no `}` occurs anywhere in the rest of the input, unescape fails with *)
(* UnclosedUnicode; only otherwise must the next character be `{`, and     *)
(* unescape fails with IllegalUnicode when it is not.                      *)
(***************************************************************************)
Decoded == result # Undecoded

\* The index of the leftmost backslash of the input (0 when it has none),
\* the character it escapes and what follows that character.
Backslashes == {i \in 1..Len(raw) : raw[i] = "\\"}

LeftmostEscape == IF Backslashes = {} THEN 0 ELSE Least(Backslashes)

Escaped ==
    IF LeftmostEscape = 0 \/ LeftmostEscape = Len(raw) THEN ""
    ELSE raw[LeftmostEscape + 1]

AfterEscaped == SubSeq(raw, LeftmostEscape + 2, Len(raw))

HasClose(s) == \E k \in 1..Len(s) : s[k] = "}"

C14_UnicodeValidationOrder ==
    (Decoded /\ Escaped = "u")
        => /\ (AfterEscaped = <<>> \/ ~HasClose(AfterEscaped))
                => result = Err("UnclosedUnicode")
           /\ (HasClose(AfterEscaped) /\ AfterEscaped[1] # "{")
                => result = Err("IllegalUnicode")
           /\ (AfterEscaped # <<>> /\ AfterEscaped[1] = "{" /\ HasClose(AfterEscaped))
                => result \notin {Err("UnclosedUnicode"), Err("IllegalUnicode")}

C14_Witness ==
    /\ raw = <<"\\", "u", "g", "0", "}">>
    /\ result = Err("IllegalUnicode")

(***************************************************************************)
(* C15.  \u{H}, H a run of hex digits, decodes to exactly one scalar       *)
(* value, the hexadecimal value of H, iff H has 1 to 6 digits and that     *)
(* value is a Unicode scalar value; otherwise unescape fails with          *)
(* EmptyUnicode when H is empty, TooLongUnicode when H has 7 or more       *)
(* digits, ValueOutOfUnicode when the value exceeds 0x10FFFF and           *)
(* IllegalSurrogate when it is a surrogate code point.  A \u escape never  *)
(* completes without appending a scalar value or returning an error.       *)
(***************************************************************************)
HexDigitValue(c) ==
    CASE c = "0" -> 0 [] c = "1" -> 1 [] c = "4" -> 4 [] c = "8" -> 8
      [] c = "D" -> 13 [] c = "F" -> 15

RECURSIVE HexValue(_)
HexValue(h) ==
    IF h = <<>> THEN 0
    ELSE HexValue(SubSeq(h, 1, Len(h) - 1)) * 16 + HexDigitValue(h[Len(h)])

\* The content is one \u{H} and nothing else.
IsUnicodeEscape ==
    /\ Len(raw) >= 4
    /\ SubSeq(raw, 1, 3) = <<"\\", "u", "{">>
    /\ raw[Len(raw)] = "}"
    /\ \A k \in 4..(Len(raw) - 1) : raw[k] \in SampleHexDigits

HexRun == SubSeq(raw, 4, Len(raw) - 1)

IsSurrogate(v) == v >= 55296 /\ v <= 57343

C15_UnicodeEscapeValue ==
    (Decoded /\ IsUnicodeEscape)
        => LET n == Len(HexRun)
               v == HexValue(HexRun)
           IN  /\ result.ok <=> (n \in 1..6 /\ v <= 1114111 /\ ~IsSurrogate(v))
               /\ result.ok => (result.val = char_of(v) /\ result.val # "")
               /\ n = 0 => result = Err("EmptyUnicode")
               /\ n >= 7 => result = Err("TooLongUnicode")
               /\ (n \in 1..6 /\ v > 1114111) => result = Err("ValueOutOfUnicode")
               /\ (n \in 1..6 /\ IsSurrogate(v)) => result = Err("IllegalSurrogate")

C15_Witness ==
    /\ raw = <<"\\", "u", "{", "1", "0", "F", "F", "F", "F", "}">>
    /\ result = Ok("U+1114111")

(***************************************************************************)
(* C16.  A \x escape consumes exactly the next two characters and          *)
(* succeeds iff both are hex digits and their value is at most 0x7F,       *)
(* appending that ASCII scalar value; otherwise it fails with              *)
(* TooShortEscape when a digit position is missing, InvalidCharInHex when  *)
(* a present character is not a hex digit and ValueOutOfHex when the value *)
(* exceeds 0x7F.  The positions are judged left to right: \xg fails with   *)
(* InvalidCharInHex.                                                       *)
(***************************************************************************)
IsHexDigit(c) == c \in {"0", "1", "4", "8", "D", "F"}

BeforeEscape == SubSeq(raw, 1, LeftmostEscape - 1)

\* What follows the two characters after \x.
AfterPair == SubSeq(AfterEscaped, 3, Len(AfterEscaped))

IsPlain(s) == \A k \in 1..Len(s) : s[k] # "\\"

C16_HexEscape ==
    (Decoded /\ Escaped = "x")
        => LET r == AfterEscaped
               v == HexValue(SubSeq(r, 1, 2))
           IN  IF r = <<>> THEN result = Err("TooShortEscape")
               ELSE IF ~IsHexDigit(r[1]) THEN result = Err("InvalidCharInHex")
               ELSE IF Len(r) = 1 THEN result = Err("TooShortEscape")
               ELSE IF ~IsHexDigit(r[2]) THEN result = Err("InvalidCharInHex")
               ELSE IF v > 127 THEN result = Err("ValueOutOfHex")
               ELSE IsPlain(AfterPair)
                       => result = Ok(Spell(BeforeEscape) \o char_of(v) \o Spell(AfterPair))

C16_Witness ==
    /\ raw = <<"\\", "x", "4", "1", "F">>
    /\ result = Ok("AF")

(***************************************************************************)
(* C17.  The decoder stops at the first failure: it returns the error of   *)
(* the leftmost malformed escape whatever follows it.  A backslash that is *)
(* the last character fails with OnlyOneSlashError, a backslash followed   *)
(* by a character outside b, r, n, t, ', \, u, x fails with IllegalEscape, *)
(* and a content without backslash is returned unchanged.                  *)
(***************************************************************************)
\* The backslashes of the content that start an escape: what precedes
\* them decodes.
EscapeStarts == {i \in Backslashes : unescape(SubSeq(raw, 1, i - 1)).ok}

C17_FirstFailure ==
    Decoded
        => /\ IsPlain(raw) => result = Ok(Spell(raw))
           /\ \A i \in EscapeStarts :
                /\ i = Len(raw) => result = Err("OnlyOneSlashError")
                /\ (i < Len(raw) /\ raw[i + 1] \notin {"b", "r", "n", "t", "'", "\\", "u", "x"})
                     => result = Err("IllegalEscape")
                /\ ~unescape(SubSeq(raw, i, Len(raw))).ok
                     => result = unescape(SubSeq(raw, i, Len(raw)))

C17_Witness ==
    /\ raw = <<"\\", "n", "\\", "q", "\\">>
    /\ result = Err("IllegalEscape")

(***************************************************************************)
(* C18.  Skipping whitespace and comments does not grow the call stack:    *)
(* the skip is a loop in one activation of next_token, so the number of    *)
(* nested activations during a call does not depend on how many            *)
(* whitespace runs and comments precede the token: a call that skips       *)
(* several of them nests no deeper than a call that skips one.             *)
(***************************************************************************)
C18_StackIndependentOfSkips == depth <= 2

(***************************************************************************)
(* C19.  Cursor position: after any sequence of calls, line is 1 plus the  *)
(* number of newlines consumed so far and column is the number of scalar   *)
(* values consumed since the last consumed newline (since the start when   *)
(* there is none); what remains is exactly the unconsumed rest of the      *)
(* text, which lookahead() and eof() only read.                            *)
(***************************************************************************)
ConsumedNewlines == {k \in 1..Consumed : text[k] = "\n"}

C19_CursorPosition ==
    /\ src = SubSeq(text, Consumed + 1, Len(text))
    /\ line = 1 + Cardinality(ConsumedNewlines)
    /\ column = Consumed - (IF ConsumedNewlines = {} THEN 0 ELSE Greatest(ConsumedNewlines))
    /\ lookahead(Self) = (IF Consumed = Len(text) THEN NUL ELSE text[Consumed + 1])
    /\ eof(Self) <=> Consumed = Len(text)

C19_Witness ==
    /\ text = <<"x", "\n", "/", "/", "x">>
    /\ token.ty = "Eof" /\ line = 2 /\ column = 3 /\ Consumed = 5

(***************************************************************************)
(* C20.  Progress: a call made while the cursor is not exhausted consumes  *)
(* at least one scalar value and none is ever un-consumed, so a caller     *)
(* that keeps asking receives an Eof token after at most (number of        *)
(* scalar values + 1) calls; once the cursor is exhausted every further    *)
(* call returns Eof and leaves line, column and the remaining source       *)
(* unchanged.  "Eventually receives Eof" is stated on finite runs: the     *)
(* token of call (number of scalar values + 1) is Eof, and the caller is   *)
(* never left unable to ask again without having received Eof.             *)
(***************************************************************************)
\* The caller can ask for another token.
CanAsk == ~panicked /\ calls < MaxCalls

C20_Progress ==
    [][calls' = calls + 1
         => /\ Len(src') <= Len(src)
            /\ src # <<>> => Len(src') < Len(src)
            /\ src = <<>> => (token'.ty = "Eof" /\ UNCHANGED <<line, column, src>>)
            /\ calls' = Len(text) + 1 => token'.ty = "Eof"
            /\ ~CanAsk' => token'.ty = "Eof"]_vars

====
